---- MODULE Spec2Model ----
(***************************************************************************)
(* The plot canvas (PlotCanvasInner) of the developer console together     *)
(* with the react-query mutation hooks it calls (useBulkCreatePlots,       *)
(* useBulkUpdatePlots, useDeletePlot) and the plot list it is seeded from. *)
(*                                                                         *)
(* Conventions.                                                            *)
(*  - An optional value (canvasPosition?, dimensions?) is a sequence of    *)
(*    length 0 (undefined) or 1.                                           *)
(*  - Ids are tuples: <<"srv", n>> for an _id given by the persistence     *)
(*    layer, <<"temp", t>> for `temp-${Date.now()}` and <<"temp", t, idx>> *)
(*    for `temp-${Date.now()}-${idx}`.                                     *)
(*  - Plot numbers are tuples of strings: <<"NEW", "1">> is `NEW-1` and    *)
(*    Append(pn, "copy") is `${pn}-copy`.                                  *)
(*  - A request to the persistence boundary is applied and answered in one *)
(*    step (its Settle action); the promise continuation of the awaiting   *)
(*    handler runs in the same step, as a microtask does.                  *)
(***************************************************************************)
EXTENDS Integers, Sequences, FiniteSets, TLC

VARIABLES
    nodes,            \* useNodesState: the working set, in order
    selectedNodeIds,  \* useState<string[]>: the selection
    dirtyNodeIds,     \* useState<Set<string>>: ids marked as moved/edited
    plots,            \* the plots prop: the plot list last fetched
    fetchPending,     \* a (re)fetch of the plot list is under way
    isLoading,        \* the isLoading prop: the first fetch has not resolved
    server,           \* the persisted plots behind the boundary
    nextId,           \* number of ids the persistence layer has assigned
    now,              \* the last reading of Date.now()
    events,           \* user events handled so far
    createReq,        \* the bulkCreate mutation: status and payload in flight
    updateReq,        \* the bulkUpdate mutation: status and payload in flight
    saveJoin,         \* handleSave suspended at `await Promise.all(jobs)`
    deleteOps,        \* the handleDeleteSelected calls with requests in flight
    last,             \* what the last handler did: its name, toast and calls
    hist,             \* history of the last save, for the end-to-end claims
    bulkOpen,         \* CreatePlotDialog: the dialog is open
    bulkForm,         \* CreatePlotDialog: the values of the bulk form
    bulkErrors,       \* CreatePlotDialog: fields the resolver rejected
    bulkReq,          \* CreatePlotDialog: its bulkCreatePlots mutation
    statusUpdateDialog, \* ProjectPage: useState of the status dialog
    pagePlots,        \* ProjectPage: plotsData, the list the table shows
    pageFetchPending, \* ProjectPage: a (re)fetch of plotsData is under way
    statusReq,        \* ProjectPage: the updatePlotStatus mutation
    statusDone,       \* the last status update the persistence layer applied
    developer,        \* useAuthStore: developer, <<>> for null
    token,            \* useAuthStore: token, <<>> for null
    isAuthenticated,  \* useAuthStore: isAuthenticated
    hasHydrated,      \* useAuthStore: hasHydrated
    shouldRender,     \* ProtectedPage: useState(false)
    route,            \* the page that is mounted
    navTo,            \* router.push under way: its target, <<>> for none
    profileQuery,     \* ProtectedPage: the developerProfile query
    pollQuery,        \* AwaitingApprovalPage: the developerProfilePoll query
    account           \* the developer's status behind the boundary

vars == <<nodes, selectedNodeIds, dirtyNodeIds, plots, fetchPending, isLoading, server,
          nextId, now, events, createReq, updateReq, saveJoin, deleteOps,
          last, hist, bulkOpen, bulkForm, bulkErrors, bulkReq,
          statusUpdateDialog, pagePlots, pageFetchPending, statusReq, statusDone,
          developer, token, isAuthenticated, hasHydrated, shouldRender, route,
          navTo, profileQuery, pollQuery, account>>

\* The state of CreatePlotDialog.
bulkVars == <<bulkOpen, bulkForm, bulkErrors, bulkReq>>

\* The state of the status dialog of ProjectPage.
pageVars == <<statusUpdateDialog, pagePlots, pageFetchPending, statusReq, statusDone>>

\* The auth store and the pages that guard on it.
authVars == <<developer, token, isAuthenticated, hasHydrated, shouldRender, route,
              navTo, profileQuery, pollQuery, account>>

\* The canvas of CreateProjectDialog, without the persisted plots.
canvasVars == <<nodes, selectedNodeIds, dirtyNodeIds, plots, fetchPending, isLoading,
                nextId, now, events, createReq, updateReq, saveJoin, deleteOps,
                last, hist>>

----------------------------------------------------------------------------
\* Bounds of the model.

MaxEvents == 5      \* user events (clicks, drags, key presses) in one session
MaxNumber == 11     \* largest start or end number typed into the bulk form
MaxDigits == 3      \* largest number of digits typed into the bulk form

\* Milliseconds that may pass between two readings of Date.now().
Elapsed == {0, 1}

\* A user event is handled: one more of the session's events is used.
UserEvent == /\ events < MaxEvents
             /\ events' = events + 1

\* Constants of the program.

DefaultWidth == 120
DefaultHeight == 90
AddBase == 100
AddStep == 20
DuplicateOffset == 20
DefaultArea == 1200
FallbackModX == 400
FallbackModY == 300
FallbackOffset == 50
SchemaMinNumber == 1
SchemaMinDigits == 1
SchemaMaxDigits == 10
DefaultDigits == 1

----------------------------------------------------------------------------
\* Helpers on sequences.

MapNodes(s, F(_)) == [i \in DOMAIN s |-> F(s[i])]

IsDraft(n) == n.data.isNew

NodeIds(nds) == {nds[i].id : i \in DOMAIN nds}

\* nodes.find((n) => n.id === id): the first node with the id, as an option.
FindNode(nds, id) ==
    LET idx == {i \in DOMAIN nds : nds[i].id = id}
    IN IF idx = {} THEN <<>>
       ELSE <<nds[CHOOSE i \in idx : \A j \in idx : i <= j]>>

\* `value || dflt` on a number.
OrDefault(value, dflt) == IF value = 0 THEN dflt ELSE value

----------------------------------------------------------------------------
\* The seeding effect.

\* plots.map((p) => ({...})): the node of one fetched plot.
PlotToNode(p) ==
    [id |-> p._id,
     type |-> "plotNode",
     position |->
        IF p.canvasPosition # <<>>
        THEN [x |-> p.canvasPosition[1].x, y |-> p.canvasPosition[1].y]
        ELSE [x |-> (p.area % FallbackModX) + FallbackOffset,
              y |-> (p.area % FallbackModY) + FallbackOffset],
     data |->
        [plotNumber |-> p.plotNumber,
         area |-> p.area,
         areaUnit |-> p.areaUnit,
         price |-> p.price,
         pricePerUnit |-> p.pricePerUnit,
         facing |-> p.facing,
         plotType |-> p.plotType,
         status |-> p.status,
         dimensions |-> p.dimensions,
         frontRoadWidth |-> p.frontRoadWidth,
         isNew |-> FALSE],
     style |->
        [width |-> IF p.canvasPosition # <<>>
                   THEN OrDefault(p.canvasPosition[1].width, DefaultWidth)
                   ELSE DefaultWidth,
         height |-> IF p.canvasPosition # <<>>
                    THEN OrDefault(p.canvasPosition[1].height, DefaultHeight)
                    ELSE DefaultHeight]]

SeedNodesKeepingPersisted(prevNodes, fetched) ==
    MapNodes(fetched, PlotToNode) \o prevNodes

SeedNodesDroppingDrafts(prevNodes, fetched) == MapNodes(fetched, PlotToNode)

\* setNodes((prevNodes) => [...mapped, ...drafts])
SeedNodes(prevNodes, fetched) ==
    LET drafts == SelectSeq(prevNodes, IsDraft)
        mapped == MapNodes(fetched, PlotToNode)
    IN mapped \o drafts

----------------------------------------------------------------------------
\* What a handler reports: its name, its toast and the calls it made.

NoCalls == [create |-> 0, update |-> 0, delete |-> 0, refresh |-> 0]

Did(op, toast, calls) == [op |-> op, toast |-> toast, calls |-> calls]

NoHist ==
    [sent |-> {}, createOk |-> FALSE, saveOk |-> FALSE, reseeded |-> FALSE,
     created |-> {}, recreated |-> FALSE]

IdleReq == [status |-> "idle", plots |-> <<>>]

----------------------------------------------------------------------------
\* The persisted plots the session starts from.

ServerPlot(n, pn, area, cp) ==
    [_id |-> <<"srv", n>>,
     plotNumber |-> pn,
     area |-> area,
     areaUnit |-> "SQ_FT",
     price |-> 0,
     pricePerUnit |-> 0,
     facing |-> "NORTH",
     plotType |-> "CORNER",
     status |-> "available",
     dimensions |-> <<>>,
     frontRoadWidth |-> <<>>,
     canvasPosition |-> cp]

InitialServer ==
    <<ServerPlot(1, <<"P", "1">>, 1250, <<>>),
      ServerPlot(2, <<"P", "2">>, 900,
                 <<[x |-> 10, y |-> 10, width |-> 0, height |-> 80]>>)>>

\* The canvas before the first fetch resolves.
CanvasInit ==
    /\ nodes = <<>>
    /\ selectedNodeIds = {}
    /\ dirtyNodeIds = {}
    /\ plots = <<>>
    /\ fetchPending = TRUE
    /\ isLoading = TRUE
    /\ server = InitialServer
    /\ nextId = Len(InitialServer)
    /\ now = 0
    /\ events = 0
    /\ createReq = IdleReq
    /\ updateReq = IdleReq
    /\ saveJoin = [awaiting |-> FALSE, left |-> {}]
    /\ deleteOps = <<>>
    /\ last = Did("init", "", NoCalls)
    /\ hist = NoHist

\* The empty string, as a sequence of characters.
EmptyText == <<>>

\* defaultValues of bulkForm
BulkDefaults ==
    [blockId |-> "",
     prefix |-> <<EmptyText>>,
     suffix |-> <<EmptyText>>,
     startNumber |-> 1,
     endNumber |-> 10,
     digits |-> <<3>>,
     area |-> 0,
     areaUnit |-> "SQ_FT",
     pricePerUnit |-> 0,
     facing |-> "NORTH",
     plotType |-> "REGULAR",
     dimensions |-> <<[length |-> 0, width |-> 0, unit |-> "FEET"]>>]

\* useState of statusUpdateDialog: closed, every field null.
ClosedStatusDialog ==
    [isOpen |-> FALSE, plotId |-> <<>>, plotNumber |-> <<>>,
     currentStatus |-> <<>>, newStatus |-> <<>>]

IdleStatusReq == [status |-> "idle", plotId |-> <<>>, newStatus |-> <<>>]

NoStatusDone == [plotId |-> <<>>, from |-> <<>>, to |-> <<>>]

\* ProjectPage before plotsData arrives, the status dialog closed.
PageInit ==
    /\ statusUpdateDialog = ClosedStatusDialog
    /\ pagePlots = <<>>
    /\ pageFetchPending = TRUE
    /\ statusReq = IdleStatusReq
    /\ statusDone = NoStatusDone

\* A useQuery that has fetched nothing; sentToken: the request under way
\* carries the Authorization header.
IdleQuery == [inflight |-> FALSE, sentToken |-> FALSE, data |-> <<>>, isError |-> FALSE]

\* The initial state of useAuthStore, before persist rehydrates it, on the
\* page the browser opens.
AuthInit ==
    /\ developer = <<>>
    /\ token = <<>>
    /\ isAuthenticated = FALSE
    /\ hasHydrated = FALSE
    /\ shouldRender = FALSE
    /\ route \in {"login", "protected", "awaiting"}
    /\ navTo = <<>>
    /\ profileQuery = IdleQuery
    /\ pollQuery = IdleQuery
    /\ account \in {"pending", "approved", "blacklisted"}

\* An approved developer is signed in and ProtectedPage shows its children,
\* the pages with the canvas and the dialogs among them.
SignedIn ==
    /\ developer = <<[status |-> "approved"]>>
    /\ token = <<"token">>
    /\ isAuthenticated = TRUE
    /\ hasHydrated = TRUE
    /\ shouldRender = TRUE
    /\ route = "protected"
    /\ navTo = <<>>
    /\ profileQuery = [IdleQuery EXCEPT !.data = <<[status |-> "approved"]>>]
    /\ pollQuery = IdleQuery
    /\ account = "approved"

\* The canvas and the closed dialog.
Init ==
    /\ CanvasInit
    /\ bulkOpen = FALSE
    /\ bulkForm = BulkDefaults
    /\ bulkErrors = {}
    /\ bulkReq = IdleReq
    /\ PageInit
    /\ SignedIn

----------------------------------------------------------------------------
\* usePlotsByProject resolves; the effect on [plots] seeds the nodes.

SeedDirtyRecomputed(dirty, nds) == dirty \cap NodeIds(nds)

\* The effect calls setNodes only: the dirty set is not part of it.
SeedDirty(dirty, nds) == dirty

FetchResolve ==
    /\ fetchPending
    /\ fetchPending' = FALSE
    /\ isLoading' = FALSE
    /\ plots' = server
    /\ IF server # plots
       THEN /\ nodes' = SeedNodes(nodes, server)
            /\ dirtyNodeIds' = SeedDirty(dirtyNodeIds, nodes')
            /\ last' = Did("seed", "", NoCalls)
            /\ hist' = [hist EXCEPT !.reseeded = hist.createOk]
       ELSE /\ nodes' = nodes
            /\ dirtyNodeIds' = dirtyNodeIds
            /\ last' = Did("fetchSame", "", NoCalls)
            /\ hist' = hist
    /\ UNCHANGED <<selectedNodeIds, server, nextId, now, events,
                   createReq, updateReq, saveJoin, deleteOps>>
    /\ UNCHANGED <<bulkVars, pageVars, authVars>>

----------------------------------------------------------------------------
\* Derived values of a render.

\* nodes.find((n) => selectedNodeIds.includes(n.id)), as an option.
selectedNode ==
    LET idx == {i \in DOMAIN nodes : nodes[i].id \in selectedNodeIds}
    IN IF idx = {} THEN <<>>
       ELSE <<nodes[CHOOSE i \in idx : \A j \in idx : i <= j]>>

PendingCreatesEveryNode(nds, dirty) == nds

\* nodes.filter((n) => n.data.isNew)
PendingCreates(nds, dirty) == SelectSeq(nds, IsDraft)

PendingMovesIgnoringDirty(nds, dirty) ==
    LET NotDraft(n) == ~n.data.isNew
    IN SelectSeq(nds, NotDraft)

\* nodes.filter((n) => !n.data.isNew && dirtyNodeIds.has(n.id))
PendingMoves(nds, dirty) ==
    LET DirtyNode(n) == ~n.data.isNew /\ n.id \in dirty
    IN SelectSeq(nds, DirtyNode)

\* bulkCreate.isPending || bulkUpdate.isPending
isSaving == createReq.status = "pending" \/ updateReq.status = "pending"

----------------------------------------------------------------------------
\* handleAddPlot

NewNode(nextIndex, t) ==
    [id |-> <<"temp", t>>,
     type |-> "plotNode",
     position |-> [x |-> AddBase + nextIndex * AddStep,
                   y |-> AddBase + nextIndex * AddStep],
     data |->
        [plotNumber |-> <<"NEW", ToString(nextIndex)>>,
         area |-> DefaultArea,
         areaUnit |-> "SQ_FT",
         price |-> 0,
         pricePerUnit |-> 0,
         facing |-> "NORTH",
         plotType |-> "REGULAR",
         status |-> "available",
         dimensions |-> <<>>,
         frontRoadWidth |-> <<>>,
         isNew |-> TRUE],
     style |-> [width |-> DefaultWidth, height |-> DefaultHeight]]

AddPlotSelectionExtending(sel, id) == sel \cup {id}

\* setSelectedNodeIds([newNode.id])
AddPlotSelection(sel, id) == {id}

HandleAddPlot(elapsed) ==
    LET nextIndex == Len(SelectSeq(nodes, IsDraft)) + 1
        newNode == NewNode(nextIndex, now + elapsed)
    IN /\ UserEvent
       /\ now' = now + elapsed
       /\ nodes' = Append(nodes, newNode)
       /\ selectedNodeIds' = AddPlotSelection(selectedNodeIds, newNode.id)
       /\ last' = Did("addPlot", "Draft plot added to canvas", NoCalls)
       /\ UNCHANGED <<isLoading, dirtyNodeIds, plots, fetchPending, server, nextId,
                      createReq, updateReq, saveJoin, deleteOps, hist>>
       /\ UNCHANGED <<bulkVars, pageVars, authVars>>

----------------------------------------------------------------------------
\* handleDuplicate

CopyOf(n, idx, t) ==
    [n EXCEPT !.id = <<"temp", t, idx>>,
              !.data = [n.data EXCEPT !.plotNumber = Append(n.data.plotNumber, "copy"),
                                      !.isNew = TRUE],
              !.position = [x |-> n.position.x + DuplicateOffset,
                            y |-> n.position.y + DuplicateOffset]]

HandleDuplicate(elapsed) ==
    LET Sel(n) == n.id \in selectedNodeIds
        toCopy == SelectSeq(nodes, Sel)
        copies == [i \in DOMAIN toCopy |-> CopyOf(toCopy[i], i - 1, now + elapsed)]
    IN /\ UserEvent
       /\ IF selectedNodeIds = {} \/ toCopy = <<>>
          THEN /\ UNCHANGED <<nodes, selectedNodeIds, now>>
               /\ last' = Did("duplicate", "", NoCalls)
          ELSE /\ now' = now + elapsed
               /\ nodes' = nodes \o copies
               /\ selectedNodeIds' = NodeIds(copies)
               /\ last' = Did("duplicate", "Duplicated plot(s)", NoCalls)
       /\ UNCHANGED <<isLoading, dirtyNodeIds, plots, fetchPending, server, nextId,
                      createReq, updateReq, saveJoin, deleteOps, hist>>
       /\ UNCHANGED <<bulkVars, pageVars, authVars>>

----------------------------------------------------------------------------
\* handleSave and the two bulk mutations.

\* The canvasPosition a save sends for a node.
CanvasPositionOf(n) ==
    [x |-> n.position.x,
     y |-> n.position.y,
     width |-> OrDefault(n.style.width, DefaultWidth),
     height |-> OrDefault(n.style.height, DefaultHeight)]

\* One entry of the bulk-create payload.
CreateEntry(n) ==
    [plotNumber |-> n.data.plotNumber,
     area |-> n.data.area,
     areaUnit |-> n.data.areaUnit,
     price |-> n.data.price,
     pricePerUnit |-> n.data.pricePerUnit,
     facing |-> n.data.facing,
     plotType |-> n.data.plotType,
     status |-> n.data.status,
     dimensions |-> n.data.dimensions,
     frontRoadWidth |-> n.data.frontRoadWidth,
     canvasPosition |-> CanvasPositionOf(n)]

UpdateEntryWithStatus(n) ==
    [_id |-> n.id, canvasPosition |-> CanvasPositionOf(n), status |-> n.data.status]

\* One entry of the bulk-update payload.
UpdateEntry(n) == [_id |-> n.id, canvasPosition |-> CanvasPositionOf(n)]

HandleSave ==
    LET creates == PendingCreates(nodes, dirtyNodeIds)
        moves == PendingMoves(nodes, dirtyNodeIds)
        calls == [NoCalls EXCEPT !.create = IF creates # <<>> THEN 1 ELSE 0,
                                 !.update = IF moves # <<>> THEN 1 ELSE 0]
    IN /\ UserEvent
       /\ ~isSaving
       /\ createReq' = IF creates # <<>>
                       THEN [status |-> "pending", plots |-> MapNodes(creates, CreateEntry)]
                       ELSE createReq
       /\ updateReq' = IF moves # <<>>
                       THEN [status |-> "pending", plots |-> MapNodes(moves, UpdateEntry)]
                       ELSE updateReq
       /\ IF creates = <<>> /\ moves = <<>>
          THEN /\ last' = Did("save", "Nothing to save", calls)
               /\ UNCHANGED <<saveJoin, hist>>
          ELSE /\ last' = Did("save", "", calls)
               /\ saveJoin' = [awaiting |-> TRUE,
                               left |-> {j \in {"create", "update"} : calls[j] = 1}]
               /\ hist' = [NoHist EXCEPT !.sent = NodeIds(creates),
                                          !.created = hist.created,
                                          !.recreated = hist.recreated]
       /\ UNCHANGED <<nodes, selectedNodeIds, dirtyNodeIds, plots, fetchPending,
                      isLoading, server, nextId, now, deleteOps>>
       /\ UNCHANGED <<bulkVars, pageVars, authVars>>

\* What the continuation of `await Promise.all(jobs)` does when job j settles:
\* "ok" (all fulfilled: the try block goes on), "fail" (first rejection: the
\* catch block) or "wait" (nothing yet).
JoinAll(join, j, ok) ==
    IF ~join.awaiting \/ j \notin join.left THEN "wait"
    ELSE IF ~ok THEN "fail"
    ELSE IF join.left = {j} THEN "ok" ELSE "wait"

JoinAfter(join, j, outcome) ==
    IF outcome = "wait"
    THEN [join EXCEPT !.left = join.left \ {j}]
    ELSE [awaiting |-> FALSE, left |-> {}]

SaveSuccessKeepingSelection(sel) == sel

\* setSelectedNodeIds([]) of the try block.
SaveSuccessSelection(sel) == {}

SaveCatchClearingDirty(dirty) == {}

\* The catch block leaves the dirty set alone.
SaveCatchDirty(dirty) == dirty

\* The statements of handleSave after the await, for one outcome.
SaveContinue(outcome, call, toast) ==
    /\ dirtyNodeIds' = IF outcome = "ok" THEN {}
                       ELSE IF outcome = "fail" THEN SaveCatchDirty(dirtyNodeIds)
                       ELSE dirtyNodeIds
    /\ selectedNodeIds' = IF outcome = "ok"
                          THEN SaveSuccessSelection(selectedNodeIds)
                          ELSE selectedNodeIds
    /\ last' = IF outcome = "ok"
               THEN Did("saveDone", "Canvas changes saved",
                        [NoCalls EXCEPT !.refresh = 1])
               ELSE IF outcome = "fail" THEN Did("saveFailed", toast, NoCalls)
               ELSE Did(call, toast, NoCalls)

\* The persistence layer stores the plots of a bulk-create under fresh ids.
ServerBulkCreate(srv, first, entries) ==
    srv \o [i \in DOMAIN entries |->
              [_id |-> <<"srv", first + i>>,
               plotNumber |-> entries[i].plotNumber,
               area |-> entries[i].area,
               areaUnit |-> entries[i].areaUnit,
               price |-> entries[i].price,
               pricePerUnit |-> entries[i].pricePerUnit,
               facing |-> entries[i].facing,
               plotType |-> entries[i].plotType,
               status |-> entries[i].status,
               dimensions |-> entries[i].dimensions,
               frontRoadWidth |-> entries[i].frontRoadWidth,
               canvasPosition |-> <<entries[i].canvasPosition>>]]

\* The persistence layer sets the canvasPosition of the plots it matches.
ServerBulkUpdate(srv, entries) ==
    [i \in DOMAIN srv |->
        LET hits == {k \in DOMAIN entries : entries[k]._id = srv[i]._id}
        IN IF hits = {} THEN srv[i]
           ELSE [srv[i] EXCEPT !.canvasPosition =
                    <<entries[CHOOSE k \in hits : \A m \in hits : m <= k].canvasPosition>>]]

BulkCreateSettle(ok) ==
    LET outcome == JoinAll(saveJoin, "create", ok)
    IN /\ createReq.status = "pending"
       /\ createReq' = [status |-> IF ok THEN "success" ELSE "error", plots |-> <<>>]
       /\ server' = IF ok THEN ServerBulkCreate(server, nextId, createReq.plots)
                    ELSE server
       /\ nextId' = IF ok THEN nextId + Len(createReq.plots) ELSE nextId
       /\ fetchPending' = (fetchPending \/ ok)
       /\ saveJoin' = JoinAfter(saveJoin, "create", outcome)
       /\ SaveContinue(outcome, "bulkCreate",
                       IF ok THEN "plots created successfully"
                       ELSE "Failed to create plots")
       /\ hist' = [hist EXCEPT
                      !.createOk = ok,
                      !.saveOk = (outcome = "ok"),
                      !.created = IF ok THEN @ \cup hist.sent ELSE @,
                      !.recreated = @ \/ (ok /\ hist.sent \cap hist.created # {})]
       /\ UNCHANGED <<isLoading, nodes, plots, now, events, updateReq, deleteOps>>
       /\ UNCHANGED <<bulkVars, pageVars, authVars>>

BulkUpdateSettle(ok) ==
    LET outcome == JoinAll(saveJoin, "update", ok)
    IN /\ updateReq.status = "pending"
       /\ updateReq' = [status |-> IF ok THEN "success" ELSE "error", plots |-> <<>>]
       /\ server' = IF ok THEN ServerBulkUpdate(server, updateReq.plots) ELSE server
       /\ fetchPending' = (fetchPending \/ ok)
       /\ saveJoin' = JoinAfter(saveJoin, "update", outcome)
       /\ SaveContinue(outcome, "bulkUpdate",
                       IF ok THEN "plots updated successfully"
                       ELSE "Failed to update plots")
       /\ hist' = [hist EXCEPT !.saveOk = (outcome = "ok")]
       /\ UNCHANGED <<isLoading, nodes, plots, nextId, now, events, createReq,
                      deleteOps>>
       /\ UNCHANGED <<bulkVars, pageVars, authVars>>

----------------------------------------------------------------------------
\* handleDeleteSelected and the delete mutation.

RemoveAt(s, k) ==
    [i \in 1..(Len(s) - 1) |-> IF i < k THEN s[i] ELSE s[i + 1]]

HandleDeleteSelected(confirmed) ==
    LET Sel(n) == n.id \in selectedNodeIds
        removable == SelectSeq(nodes, Sel)
        draftIds == {removable[i].id : i \in {k \in DOMAIN removable : removable[k].data.isNew}}
        jobIds == {removable[i].id : i \in {k \in DOMAIN removable : ~removable[k].data.isNew}}
        Kept(n) == n.id \notin draftIds
    IN IF selectedNodeIds = {}
       THEN /\ last' = Did("delete", "Select a plot to delete", NoCalls)
            /\ UNCHANGED <<nodes, selectedNodeIds, fetchPending, deleteOps>>
       ELSE IF removable = <<>> \/ ~confirmed
       THEN /\ last' = Did("delete", "", NoCalls)
            /\ UNCHANGED <<nodes, selectedNodeIds, fetchPending, deleteOps>>
       ELSE /\ nodes' = SelectSeq(nodes, Kept)
            /\ IF jobIds # {}
               THEN /\ deleteOps' = Append(deleteOps, [inflight |-> jobIds, joined |-> FALSE])
                    /\ last' = Did("delete", "",
                                   [NoCalls EXCEPT !.delete = Cardinality(jobIds)])
                    /\ UNCHANGED <<selectedNodeIds, fetchPending>>
               ELSE /\ selectedNodeIds' = {}
                    /\ fetchPending' = TRUE
                    /\ last' = Did("delete", "", [NoCalls EXCEPT !.refresh = 1])
                    /\ UNCHANGED deleteOps

HandleDelete(confirmed) ==
    /\ UserEvent
    /\ HandleDeleteSelected(confirmed)
    /\ UNCHANGED <<isLoading, dirtyNodeIds, plots, server, nextId, now, createReq,
                   updateReq, saveJoin, hist>>
    /\ UNCHANGED <<bulkVars, pageVars, authVars>>

\* `await Promise.all(jobs)` of handleDeleteSelected when the request for id settles.
DeleteJoin(op, id, ok) ==
    IF op.joined THEN "wait"
    ELSE IF ~ok THEN "fail"
    ELSE IF op.inflight = {id} THEN "ok" ELSE "wait"

ServerDelete(srv, id) ==
    LET Other(p) == p._id # id
    IN SelectSeq(srv, Other)

DeleteSettle(k, id, ok) ==
    LET op == deleteOps[k]
        outcome == DeleteJoin(op, id, ok)
        after == [inflight |-> op.inflight \ {id},
                  joined |-> op.joined \/ outcome # "wait"]
    IN /\ id \in op.inflight
       /\ ok => \E i \in DOMAIN server : server[i]._id = id
       /\ server' = IF ok THEN ServerDelete(server, id) ELSE server
       /\ deleteOps' = IF after.inflight = {} THEN RemoveAt(deleteOps, k)
                       ELSE [deleteOps EXCEPT ![k] = after]
       /\ fetchPending' = (fetchPending \/ ok \/ outcome # "wait")
       /\ selectedNodeIds' = IF outcome # "wait" THEN {} ELSE selectedNodeIds
       /\ last' = IF outcome = "ok"
                  THEN Did("deleteDone", "Deleted selected plots",
                           [NoCalls EXCEPT !.refresh = 1])
                  ELSE IF outcome = "fail"
                  THEN Did("deleteDone", "Failed to delete plot",
                           [NoCalls EXCEPT !.refresh = 1])
                  ELSE Did("deletePlot",
                           IF ok THEN "Plot deleted successfully"
                           ELSE "Failed to delete plot", NoCalls)
       /\ UNCHANGED <<isLoading, nodes, dirtyNodeIds, plots, nextId, now, events,
                      createReq, updateReq, saveJoin, hist>>
       /\ UNCHANGED <<bulkVars, pageVars, authVars>>

----------------------------------------------------------------------------
\* updateSelectedNode, the ReactFlow callbacks and "Clear drafts".

UpdateInputs == {<<"status", "sold">>}

\* selectedNodeIds.some((id) => !nodes.find((n) => n.id === id)?.data.isNew)
AnySelected(nds, sel) ==
    \E id \in sel : LET f == FindNode(nds, id)
                    IN f = <<>> \/ ~f[1].data.isNew

UpdateSelectedNode(key, value) ==
    LET Edit(n) == IF n.id \in selectedNodeIds
                   THEN [n EXCEPT !.data = [n.data EXCEPT ![key] = value]]
                   ELSE n
        anySelected == AnySelected(nodes, selectedNodeIds)
    IN /\ UserEvent
       /\ selectedNode # <<>>
       /\ key # "status" => selectedNode[1].data.isNew
       /\ nodes' = MapNodes(nodes, Edit)
       /\ dirtyNodeIds' = IF anySelected THEN dirtyNodeIds \cup selectedNodeIds
                          ELSE dirtyNodeIds
       /\ last' = Did("updateField", "", NoCalls)
       /\ UNCHANGED <<isLoading, selectedNodeIds, plots, fetchPending, server, nextId, now,
                      createReq, updateReq, saveJoin, deleteOps, hist>>
       /\ UNCHANGED <<bulkVars, pageVars, authVars>>

DragTarget == [x |-> 30, y |-> 40]
ResizeTarget == [width |-> 60, height |-> 60]

\* The changes ReactFlow hands to onNodesChange for node id: a step of a drag,
\* the end of a drag and a resize with the NodeResizer.
NodeChanges(id) ==
    {[type |-> "position", id |-> id, dragging |-> TRUE, position |-> <<DragTarget>>],
     [type |-> "position", id |-> id, dragging |-> FALSE, position |-> <<>>],
     [type |-> "dimensions", id |-> id, updateStyle |-> TRUE, dimensions |-> <<ResizeTarget>>]}

\* onNodesChange of useNodesState: applyNodeChanges for one change.
ApplyNodeChange(nds, change) ==
    LET Apply(n) ==
          IF n.id # change.id THEN n
          ELSE IF change.type = "position"
          THEN IF change.position # <<>>
               THEN [n EXCEPT !.position = change.position[1]]
               ELSE n
          ELSE IF change.updateStyle /\ change.dimensions # <<>>
               THEN [n EXCEPT !.style = change.dimensions[1]]
               ELSE n
    IN MapNodes(nds, Apply)

MarksDirtyOnDragEndOnly(nds, change) ==
    LET node == FindNode(nds, change.id)
    IN /\ change.type = "position" /\ change.dragging = FALSE
       /\ node # <<>>
       /\ ~node[1].data.isNew

\* The condition under which the callback adds change.id to the dirty set.
MarksDirty(nds, change) ==
    LET node == FindNode(nds, change.id)
    IN /\ \/ change.type = "position" /\ change.dragging = FALSE
          \/ change.type = "dimensions"
       /\ node # <<>>
       /\ ~node[1].data.isNew

OnNodesChange(change) ==
    /\ UserEvent
    /\ ~isLoading
    /\ nodes' = ApplyNodeChange(nodes, change)
    /\ dirtyNodeIds' = IF MarksDirty(nodes, change)
                       THEN dirtyNodeIds \cup {change.id}
                       ELSE dirtyNodeIds
    /\ last' = Did("nodesChange", "", NoCalls)
    /\ UNCHANGED <<isLoading, selectedNodeIds, plots, fetchPending, server, nextId, now,
                   createReq, updateReq, saveJoin, deleteOps, hist>>
    /\ UNCHANGED <<bulkVars, pageVars, authVars>>

\* The selections a click leaves: on the pane, on node id, or on node id with
\* the multi-selection key held (which toggles it).
Selections(id) ==
    LET shown == selectedNodeIds \cap NodeIds(nodes)
    IN {{}, {id}, shown \cup {id}, shown \ {id}}

OnSelectionChange(sel) ==
    /\ UserEvent
    /\ ~isLoading
    /\ sel # selectedNodeIds
    /\ selectedNodeIds' = sel
    /\ last' = Did("selectionChange", "", NoCalls)
    /\ UNCHANGED <<isLoading, nodes, dirtyNodeIds, plots, fetchPending, server, nextId, now,
                   createReq, updateReq, saveJoin, deleteOps, hist>>
    /\ UNCHANGED <<bulkVars, pageVars, authVars>>

ClearDraftsKeepingNothing(nds) == <<>>

\* nds.filter((n) => !n.data.isNew)
ClearDraftsNodes(nds) ==
    LET NotDraft(n) == ~n.data.isNew
    IN SelectSeq(nds, NotDraft)

ClearDrafts ==
    /\ UserEvent
    /\ ~isSaving
    /\ \/ PendingCreates(nodes, dirtyNodeIds) # <<>>
       \/ PendingMoves(nodes, dirtyNodeIds) # <<>>
    /\ nodes' = ClearDraftsNodes(nodes)
    /\ dirtyNodeIds' = {}
    /\ last' = Did("clearDrafts", "Canvas drafts cleared", NoCalls)
    /\ UNCHANGED <<isLoading, selectedNodeIds, plots, fetchPending, server, nextId,
                   now, createReq, updateReq, saveJoin, deleteOps, hist>>
    /\ UNCHANGED <<bulkVars, pageVars, authVars>>

----------------------------------------------------------------------------
\* CreatePlotDialog: the bulk form, its schema and onBulkSubmit.
\* A string the user types (prefix, suffix, a plot number) is a sequence of
\* one-character strings.

\* `value || ""` on an optional string.
OrEmpty(text) == IF text = <<>> THEN EmptyText ELSE text[1]

\* i.toString() for a positive integer: its decimal digits.
RECURSIVE NumberToString(_)
NumberToString(i) ==
    IF i < 10 THEN <<ToString(i)>>
    ELSE Append(NumberToString(i \div 10), ToString(i % 10))

PadStartTruncating(str, targetLength, fill) ==
    IF Len(str) >= targetLength
    THEN SubSeq(str, Len(str) - targetLength + 1, Len(str))
    ELSE [k \in 1..(targetLength - Len(str)) |-> fill] \o str

\* str.padStart(targetLength, fill) for a one-character fill.
PadStart(str, targetLength, fill) ==
    IF Len(str) >= targetLength THEN str
    ELSE [k \in 1..(targetLength - Len(str)) |-> fill] \o str

BulkSchemaErrorsWithoutRefine(form) ==
    {path \in {"blockId", "startNumber", "endNumber", "digits", "area",
               "pricePerUnit", "dimensions"} :
        \/ path = "blockId" /\ form.blockId = ""
        \/ path = "startNumber" /\ form.startNumber < SchemaMinNumber
        \/ path = "endNumber" /\ form.endNumber < SchemaMinNumber
        \/ path = "digits" /\ form.digits # <<>>
                           /\ \/ form.digits[1] < SchemaMinDigits
                              \/ form.digits[1] > SchemaMaxDigits
        \/ path = "area" /\ ~(form.area > 0)
        \/ path = "pricePerUnit" /\ ~(form.pricePerUnit > 0)
        \/ path = "dimensions" /\ form.dimensions # <<>>
                               /\ \/ ~(form.dimensions[1].length > 0)
                                  \/ ~(form.dimensions[1].width > 0)}

\* The fields bulkCreatePlotSchema rejects.
BulkSchemaErrors(form) ==
    {path \in {"blockId", "startNumber", "endNumber", "digits", "area",
               "pricePerUnit", "dimensions"} :
        \/ path = "blockId" /\ form.blockId = ""
        \/ path = "startNumber" /\ form.startNumber < SchemaMinNumber
        \/ path = "endNumber" /\ \/ form.endNumber < SchemaMinNumber
                                 \/ ~(form.endNumber >= form.startNumber)
        \/ path = "digits" /\ form.digits # <<>>
                           /\ \/ form.digits[1] < SchemaMinDigits
                              \/ form.digits[1] > SchemaMaxDigits
        \/ path = "area" /\ ~(form.area > 0)
        \/ path = "pricePerUnit" /\ ~(form.pricePerUnit > 0)
        \/ path = "dimensions" /\ form.dimensions # <<>>
                               /\ \/ ~(form.dimensions[1].length > 0)
                                  \/ ~(form.dimensions[1].width > 0)}

\* The data the schema hands to onBulkSubmit: digits gets its default.
BulkSchemaParse(form) ==
    [form EXCEPT !.digits = IF form.digits = <<>> THEN DefaultDigits
                            ELSE form.digits[1]]

TotalPricePerUnitOnly(area, pricePerUnit) == pricePerUnit

\* const totalPrice = area * pricePerUnit
TotalPrice(area, pricePerUnit) == area * pricePerUnit

\* The plots array onBulkSubmit builds in its for loop.
OnBulkSubmitPlots(data) ==
    LET totalPrice == TotalPrice(data.area, data.pricePerUnit)
        Entry(i) ==
           LET plotNumStr == PadStart(NumberToString(i),
                                      OrDefault(data.digits, 1), "0")
           IN [blockId |-> data.blockId,
               areaUnit |-> data.areaUnit,
               facing |-> data.facing,
               plotType |-> data.plotType,
               dimensions |-> data.dimensions,
               plotNumber |-> OrEmpty(data.prefix) \o plotNumStr
                                 \o OrEmpty(data.suffix),
               area |-> data.area,
               pricePerUnit |-> data.pricePerUnit,
               price |-> totalPrice]
    IN IF data.endNumber >= data.startNumber
       THEN [k \in 1..(data.endNumber - data.startNumber + 1) |->
               Entry(data.startNumber + k - 1)]
       ELSE <<>>

\* bulkForm.handleSubmit(onBulkSubmit) up to `await bulkCreatePlots.mutateAsync`.
BulkSubmit ==
    LET errors == BulkSchemaErrors(bulkForm)
    IN /\ bulkOpen
       /\ bulkReq.status # "pending"
       /\ bulkErrors' = errors
       /\ bulkReq' = IF errors = {}
                     THEN [status |-> "pending",
                           plots |-> OnBulkSubmitPlots(BulkSchemaParse(bulkForm))]
                     ELSE bulkReq
       /\ UNCHANGED <<bulkOpen, bulkForm>>
       /\ UNCHANGED <<nodes, selectedNodeIds, dirtyNodeIds, plots, fetchPending,
                      isLoading, server, nextId, now, events, createReq,
                      updateReq, saveJoin, deleteOps, last, hist>>
       /\ UNCHANGED <<pageVars, authVars>>

\* The persistence layer stores the plots of the dialog's bulk-create.
ServerBulkCreateDialog(srv, first, entries) ==
    srv \o [i \in DOMAIN entries |->
              [_id |-> <<"srv", first + i>>,
               plotNumber |-> entries[i].plotNumber,
               area |-> entries[i].area,
               areaUnit |-> entries[i].areaUnit,
               price |-> entries[i].price,
               pricePerUnit |-> entries[i].pricePerUnit,
               facing |-> entries[i].facing,
               plotType |-> entries[i].plotType,
               status |-> "available",
               dimensions |-> entries[i].dimensions,
               frontRoadWidth |-> <<>>,
               canvasPosition |-> <<>>]]

\* The dialog's bulk-create settles; onBulkSubmit goes on after its await.
BulkSettle(ok) ==
    /\ bulkReq.status = "pending"
    /\ bulkReq' = [status |-> IF ok THEN "success" ELSE "error", plots |-> <<>>]
    /\ server' = IF ok THEN ServerBulkCreateDialog(server, nextId, bulkReq.plots)
                 ELSE server
    /\ nextId' = IF ok THEN nextId + Len(bulkReq.plots) ELSE nextId
    /\ fetchPending' = (fetchPending \/ ok)
    /\ bulkOpen' = IF ok THEN FALSE ELSE bulkOpen
    /\ bulkForm' = IF ok THEN BulkDefaults ELSE bulkForm
    /\ UNCHANGED <<nodes, selectedNodeIds, dirtyNodeIds, plots, isLoading, now,
                   events, createReq, updateReq, saveJoin, deleteOps, last, hist,
                   bulkErrors>>
    /\ UNCHANGED <<pageVars, authVars>>

\* The Cancel button of the bulk tab.
BulkCancel ==
    /\ bulkOpen
    /\ bulkOpen' = FALSE
    /\ UNCHANGED <<nodes, selectedNodeIds, dirtyNodeIds, plots, fetchPending,
                   isLoading, server, nextId, now, events, createReq, updateReq,
                   saveJoin, deleteOps, last, hist, bulkForm, bulkErrors, bulkReq>>
    /\ UNCHANGED <<pageVars, authVars>>

\* What the user may have typed into the bulk form when the session starts.
BulkForms ==
    {[BulkDefaults EXCEPT !.blockId = "B1", !.area = area, !.pricePerUnit = 2,
                          !.prefix = prefix, !.suffix = suffix,
                          !.startNumber = startNumber, !.endNumber = endNumber,
                          !.digits = digits, !.dimensions = dimensions] :
        area \in {0, 1000, 1500},
        dimensions \in {BulkDefaults.dimensions,
                        <<[length |-> 30, width |-> 40, unit |-> "FEET"]>>},
        prefix \in {<<>>, <<EmptyText>>, <<<<"A">>>>},
        suffix \in {<<>>, <<<<"b">>>>},
        startNumber \in 0..MaxNumber,
        endNumber \in 0..MaxNumber,
        digits \in {<<>>} \cup {<<d>> : d \in (0..MaxDigits) \cup {SchemaMaxDigits + 1}}}

\* The canvas and the open dialog with a filled bulk form.
InitBulk ==
    /\ CanvasInit
    /\ bulkOpen = TRUE
    /\ bulkForm \in BulkForms
    /\ bulkErrors = {}
    /\ bulkReq = IdleReq
    /\ PageInit
    /\ SignedIn

NextBulk ==
    \/ BulkSubmit
    \/ \E ok \in BOOLEAN : BulkSettle(ok)
    \/ BulkCancel
    \/ FetchResolve

SpecBulk == InitBulk /\ [][NextBulk]_vars

----------------------------------------------------------------------------
Next ==
    \/ FetchResolve
    \/ \E elapsed \in Elapsed : HandleAddPlot(elapsed)
    \/ \E elapsed \in Elapsed : HandleDuplicate(elapsed)
    \/ HandleSave
    \/ \E confirmed \in BOOLEAN : HandleDelete(confirmed)
    \/ \E k \in DOMAIN deleteOps : \E id \in deleteOps[k].inflight :
          \E ok \in BOOLEAN : DeleteSettle(k, id, ok)
    \/ \E kv \in UpdateInputs : UpdateSelectedNode(kv[1], kv[2])
    \/ \E id \in NodeIds(nodes) : \E change \in NodeChanges(id) : OnNodesChange(change)
    \/ \E id \in NodeIds(nodes) : \E sel \in Selections(id) : OnSelectionChange(sel)
    \/ ClearDrafts
    \/ \E ok \in BOOLEAN : BulkCreateSettle(ok)
    \/ \E ok \in BOOLEAN : BulkUpdateSettle(ok)

Spec == Init /\ [][Next]_vars

----------------------------------------------------------------------------
\* ProjectPage: the plot table and its status dialog.

\* type PlotStatus
PlotStatuses == {"available", "booked", "reserved", "sold"}

NewStatusOptionsWithoutAvailable == {"booked", "reserved", "sold"}

\* The SelectItems of the New Status select.
NewStatusOptions == {"available", "booked", "reserved", "sold"}

\* usePlotsByProject resolves: plotsData is the list as persisted.
PageFetchResolve ==
    /\ pageFetchPending
    /\ pageFetchPending' = FALSE
    /\ pagePlots' = server
    /\ UNCHANGED <<statusUpdateDialog, statusReq, statusDone>>
    /\ UNCHANGED <<canvasVars, server, bulkVars, authVars>>

\* The Update Status item of a row of the table.
HandleOpenStatusUpdate(k) ==
    /\ ~statusUpdateDialog.isOpen
    /\ statusUpdateDialog' = [isOpen |-> TRUE,
                              plotId |-> <<pagePlots[k]._id>>,
                              plotNumber |-> <<pagePlots[k].plotNumber>>,
                              currentStatus |-> <<pagePlots[k].status>>,
                              newStatus |-> <<pagePlots[k].status>>]
    /\ UNCHANGED <<pagePlots, pageFetchPending, statusReq, statusDone>>
    /\ UNCHANGED <<canvasVars, server, bulkVars, authVars>>

\* onValueChange of the New Status select.
SelectNewStatus(value) ==
    /\ statusUpdateDialog.isOpen
    /\ statusUpdateDialog' = [statusUpdateDialog EXCEPT !.newStatus = <<value>>]
    /\ UNCHANGED <<pagePlots, pageFetchPending, statusReq, statusDone>>
    /\ UNCHANGED <<canvasVars, server, bulkVars, authVars>>

\* The Cancel button, and onOpenChange(false) of the dialog.
CloseStatusDialog ==
    /\ statusUpdateDialog.isOpen
    /\ statusUpdateDialog' = ClosedStatusDialog
    /\ UNCHANGED <<pagePlots, pageFetchPending, statusReq, statusDone>>
    /\ UNCHANGED <<canvasVars, server, bulkVars, authVars>>

\* The disabled attribute of the Update Status button.
UpdateDisabled(dialog, req) ==
    \/ req.status = "pending"
    \/ dialog.newStatus = <<>>
    \/ dialog.newStatus = dialog.currentStatus

\* The early return of handleUpdateStatus.
ReturnsEarly(dialog) ==
    \/ dialog.plotId = <<>>
    \/ dialog.newStatus = <<>>
    \/ dialog.newStatus = dialog.currentStatus

\* A click on Update Status: handleUpdateStatus up to its await.
HandleUpdateStatus ==
    /\ statusUpdateDialog.isOpen
    /\ ~UpdateDisabled(statusUpdateDialog, statusReq)
    /\ IF ReturnsEarly(statusUpdateDialog)
       THEN UNCHANGED statusReq
       ELSE statusReq' = [status |-> "pending",
                          plotId |-> statusUpdateDialog.plotId,
                          newStatus |-> statusUpdateDialog.newStatus]
    /\ UNCHANGED <<statusUpdateDialog, pagePlots, pageFetchPending, statusDone>>
    /\ UNCHANGED <<canvasVars, server, bulkVars, authVars>>

\* PATCH /projects/plots/:plotId/status as the persistence layer applies it.
ServerSetStatus(srv, id, status) ==
    [k \in DOMAIN srv |->
        IF srv[k]._id = id THEN [srv[k] EXCEPT !.status = status] ELSE srv[k]]

\* The status the plot `id` has in the list `list`, <<>> if it is not there.
StatusOf(list, id) ==
    IF \E k \in DOMAIN list : list[k]._id = id
    THEN <<list[CHOOSE k \in DOMAIN list : list[k]._id = id].status>>
    ELSE <<>>

\* The mutation settles: onSuccess invalidates the plot queries, and
\* handleUpdateStatus goes on after its await, or lands in its catch.
StatusUpdateSettle(ok) ==
    LET id == statusReq.plotId[1]
        to == statusReq.newStatus[1]
    IN /\ statusReq.status = "pending"
       /\ ok => StatusOf(server, id) # <<>>
       /\ statusReq' = [IdleStatusReq EXCEPT
                           !.status = IF ok THEN "success" ELSE "error"]
       /\ server' = IF ok THEN ServerSetStatus(server, id, to) ELSE server
       /\ statusDone' = IF ok
                        THEN [plotId |-> <<id>>, from |-> StatusOf(server, id),
                              to |-> <<to>>]
                        ELSE statusDone
       /\ pageFetchPending' = (pageFetchPending \/ ok)
       /\ statusUpdateDialog' = IF ok THEN ClosedStatusDialog
                                ELSE statusUpdateDialog
       /\ UNCHANGED pagePlots
       /\ UNCHANGED <<canvasVars, bulkVars, authVars>>

NextStatus ==
    \/ PageFetchResolve
    \/ \E k \in DOMAIN pagePlots : HandleOpenStatusUpdate(k)
    \/ \E value \in NewStatusOptions : SelectNewStatus(value)
    \/ CloseStatusDialog
    \/ HandleUpdateStatus
    \/ \E ok \in BOOLEAN : StatusUpdateSettle(ok)

SpecStatus == Init /\ [][NextStatus]_vars

----------------------------------------------------------------------------
\* useAuthStore, ProtectedPage, the axios interceptor, LoginPage and
\* AwaitingApprovalPage.

AccountStatuses == {"pending", "approved", "blacklisted"}

\* The three fields of the store that login, logout and setDeveloper write.
Store == [developer |-> developer, token |-> token, isAuthenticated |-> isAuthenticated]

\* login: (developer, token) => set({developer, token, isAuthenticated: true})
Login(st, dev, tok) ==
    [developer |-> <<dev>>, token |-> <<tok>>, isAuthenticated |-> TRUE]

\* logout: () => set({developer: null, token: null, isAuthenticated: false})
Logout(st) ==
    [developer |-> <<>>, token |-> <<>>, isAuthenticated |-> FALSE]

\* setDeveloper: (developer) => set({ developer })
SetDeveloper(st, dev) == [st EXCEPT !.developer = <<dev>>]

SetStore(st) ==
    /\ developer' = st.developer
    /\ token' = st.token
    /\ isAuthenticated' = st.isAuthenticated

\* developer?.status === "pending"
IsPending(st) == st.developer # <<>> /\ st.developer[1].status = "pending"

\* The router.push of the second effect of ProtectedPage, <<>> for none.
GuardPush(st) ==
    IF ~st.isAuthenticated THEN <<"login">>
    ELSE IF IsPending(st) THEN <<"awaiting">>
    ELSE <<>>

\* The second effect of ProtectedPage reaches setShouldRender(true).
GuardRenders(st) == st.isAuthenticated /\ ~IsPending(st)

\* The second effect of ProtectedPage, run when the store went from stOld to
\* stNew after the handlers of this step pushed `pushed`.
GuardEffect(stOld, stNew, pushed) ==
    IF route = "protected" /\ stNew # stOld
    THEN /\ navTo' = IF GuardPush(stNew) # <<>> THEN GuardPush(stNew) ELSE pushed
         /\ shouldRender' = (shouldRender \/ GuardRenders(stNew))
    ELSE /\ navTo' = pushed
         /\ shouldRender' = shouldRender

\* ProtectedPage returns its children.
ChildrenRendered == route = "protected" /\ hasHydrated /\ shouldRender

\* A query that starts fetching for the store st.
Fetching(st) == [IdleQuery EXCEPT !.inflight = TRUE, !.sentToken = st.token # <<>>]

\* The page `page` mounts on the hydrated store st: its state is fresh, its
\* queries start and its effects run once.
MountPage(page, st) ==
    /\ shouldRender' = (page = "protected" /\ GuardRenders(st))
    /\ navTo' = IF page = "protected" THEN GuardPush(st) ELSE <<>>
    /\ profileQuery' = IF page = "protected" /\ st.isAuthenticated
                       THEN Fetching(st) ELSE IdleQuery
    /\ pollQuery' = IF page = "awaiting" THEN Fetching(st) ELSE IdleQuery

\* What persist may find under "auth-storage".
PersistedStores ==
    {Logout(Store)} \cup
    {Login(Store, [status |-> status], "token") : status \in AccountStatuses}

\* persist rehydrates the store and onRehydrateStorage sets hasHydrated.
Rehydrate(persisted) ==
    /\ ~hasHydrated
    /\ hasHydrated' = TRUE
    /\ SetStore(persisted)
    /\ MountPage(route, persisted)
    /\ UNCHANGED <<route, account>>
    /\ UNCHANGED <<canvasVars, server, bulkVars, pageVars>>

\* onSuccess of the login mutation of LoginPage (and of RegisterPage).
LoginSuccess ==
    /\ hasHydrated
    /\ route = "login"
    /\ SetStore(Login(Store, [status |-> account], "token"))
    /\ navTo' = IF account = "pending" THEN <<"awaiting">> ELSE <<"protected">>
    /\ UNCHANGED <<hasHydrated, shouldRender, route, profileQuery, pollQuery, account>>
    /\ UNCHANGED <<canvasVars, server, bulkVars, pageVars>>

\* The navigation router.push started commits: the target page mounts.
NavigationComplete ==
    /\ navTo # <<>>
    /\ route' = navTo[1]
    /\ IF navTo[1] = route
       THEN /\ navTo' = <<>>
            /\ UNCHANGED <<shouldRender, profileQuery, pollQuery>>
       ELSE MountPage(navTo[1], Store)
    /\ UNCHANGED <<developer, token, isAuthenticated, hasHydrated, account>>
    /\ UNCHANGED <<canvasVars, server, bulkVars, pageVars>>

\* The developerProfile query refetches (window focus) while enabled.
ProfileRefetch ==
    /\ route = "protected"
    /\ hasHydrated /\ isAuthenticated
    /\ ~profileQuery.inflight
    /\ profileQuery' = [profileQuery EXCEPT !.inflight = TRUE,
                                            !.sentToken = token # <<>>]
    /\ UNCHANGED <<developer, token, isAuthenticated, hasHydrated, shouldRender,
                   route, navTo, pollQuery, account>>
    /\ UNCHANGED <<canvasVars, server, bulkVars, pageVars>>

Outcomes == {"ok", "unauthorized", "error"}

\* The query `query` after its request settled with `outcome`.
Settled(query, outcome) ==
    [inflight |-> FALSE,
     sentToken |-> FALSE,
     data |-> IF outcome = "ok" THEN <<[status |-> account]>> ELSE query.data,
     isError |-> outcome # "ok"]

\* The error handler of the response interceptor of useAxios.
Intercepted(st, outcome) == IF outcome = "unauthorized" THEN Logout(st) ELSE st

\* The first effect of ProtectedPage on the store st.
ProfileEffect(st, query) ==
    LET st1 == IF query.data # <<>> THEN SetDeveloper(st, query.data[1]) ELSE st
    IN IF query.isError THEN Logout(st1) ELSE st1

\* GET /developers/me of ProtectedPage settles: the interceptor, then the
\* effect on [developerData, isError], then the effect on the store.
ProfileFetchResolve(outcome) ==
    LET query == Settled(profileQuery, outcome)
        st1 == Intercepted(Store, outcome)
        changed == query.data # profileQuery.data \/ query.isError # profileQuery.isError
        st2 == IF changed THEN ProfileEffect(st1, query) ELSE st1
        pushed == IF outcome = "unauthorized" \/ (changed /\ query.isError)
                  THEN <<"login">> ELSE navTo
    IN /\ route = "protected"
       /\ profileQuery.inflight
       /\ outcome = "ok" => profileQuery.sentToken
       /\ profileQuery' = query
       /\ SetStore(st2)
       /\ GuardEffect(Store, st2, pushed)
       /\ UNCHANGED <<hasHydrated, route, pollQuery, account>>
       /\ UNCHANGED <<canvasVars, server, bulkVars, pageVars>>

\* A request of a page inside ProtectedPage is answered 401 or 403: the
\* interceptor logs out and pushes /login.
ChildRequestRejected ==
    /\ ChildrenRendered
    /\ SetStore(Logout(Store))
    /\ GuardEffect(Store, Logout(Store), <<"login">>)
    /\ UNCHANGED <<hasHydrated, route, profileQuery, pollQuery, account>>
    /\ UNCHANGED <<canvasVars, server, bulkVars, pageVars>>

\* refetchInterval of the developerProfilePoll query.
PollRefetch ==
    /\ route = "awaiting"
    /\ hasHydrated
    /\ ~pollQuery.inflight
    /\ pollQuery' = [pollQuery EXCEPT !.inflight = TRUE, !.sentToken = token # <<>>]
    /\ UNCHANGED <<developer, token, isAuthenticated, hasHydrated, shouldRender,
                   route, navTo, profileQuery, account>>
    /\ UNCHANGED <<canvasVars, server, bulkVars, pageVars>>

\* GET /developers/me of AwaitingApprovalPage settles: the interceptor, then
\* the effect on [developerData].
PollResolve(outcome) ==
    LET query == Settled(pollQuery, outcome)
        st1 == Intercepted(Store, outcome)
        changed == query.data # pollQuery.data
        st2 == IF changed THEN SetDeveloper(st1, query.data[1]) ELSE st1
    IN /\ route = "awaiting"
       /\ pollQuery.inflight
       /\ outcome = "ok" => pollQuery.sentToken
       /\ pollQuery' = query
       /\ SetStore(st2)
       /\ navTo' = IF changed /\ query.data[1].status = "approved" THEN <<"protected">>
                   ELSE IF outcome = "unauthorized" THEN <<"login">>
                   ELSE navTo
       /\ UNCHANGED <<hasHydrated, shouldRender, route, profileQuery, account>>
       /\ UNCHANGED <<canvasVars, server, bulkVars, pageVars>>

\* The Back to Login link of AwaitingApprovalPage.
BackToLogin ==
    /\ route = "awaiting"
    /\ navTo' = <<"login">>
    /\ UNCHANGED <<developer, token, isAuthenticated, hasHydrated, shouldRender,
                   route, profileQuery, pollQuery, account>>
    /\ UNCHANGED <<canvasVars, server, bulkVars, pageVars>>

\* An administrator changes the status of the account.
AccountStatusChange(status) ==
    /\ status # account
    /\ account' = status
    /\ UNCHANGED <<developer, token, isAuthenticated, hasHydrated, shouldRender,
                   route, navTo, profileQuery, pollQuery>>
    /\ UNCHANGED <<canvasVars, server, bulkVars, pageVars>>

InitAuth ==
    /\ CanvasInit
    /\ bulkOpen = FALSE
    /\ bulkForm = BulkDefaults
    /\ bulkErrors = {}
    /\ bulkReq = IdleReq
    /\ PageInit
    /\ AuthInit

NextAuth ==
    \/ \E persisted \in PersistedStores : Rehydrate(persisted)
    \/ LoginSuccess
    \/ NavigationComplete
    \/ ProfileRefetch
    \/ \E outcome \in Outcomes : ProfileFetchResolve(outcome)
    \/ ChildRequestRejected
    \/ PollRefetch
    \/ \E outcome \in Outcomes : PollResolve(outcome)
    \/ BackToLogin
    \/ \E status \in AccountStatuses : AccountStatusChange(status)

SpecAuth == InitAuth /\ [][NextAuth]_vars
----------------------------------------------------------------------------
\* Claims about seeding and saving.

Drafts(nds) == {i \in DOMAIN nds : nds[i].data.isNew}

Persisted(nds) == {i \in DOMAIN nds : ~nds[i].data.isNew}

DirtyPersisted(nds, dirty) == {i \in Persisted(nds) : nds[i].id \in dirty}

\* C1: seeding never drops a draft: every node that is a draft when the seeding
\* effect runs is in nodes afterwards with the same id, data, position and size.
C1_SeedingKeepsDrafts ==
    [][last'.op = "seed" =>
         \A i \in Drafts(nodes) : \E j \in DOMAIN nodes' : nodes'[j] = nodes[i]]_vars

\* A seeding has just run over a working set that held a draft, next to
\* nodes of fetched plots.
C1_Witness ==
    /\ last.op = "seed"
    /\ Drafts(nodes) # {}
    /\ Persisted(nodes) # {}

\* C2: once a save's bulk-create has succeeded, the save has completed and the
\* nodes were re-seeded from the refreshed list, no node sent in that
\* bulk-create is still a draft under its temporary id.
C2_DraftsReplacedAfterSave ==
    (hist.createOk /\ hist.saveOk /\ hist.reseeded) =>
        \A i \in DOMAIN nodes : ~(nodes[i].data.isNew /\ nodes[i].id \in hist.sent)

\* C3: a save issues at most one bulk-create, with one entry per draft node in
\* node order, and at most one bulk-update, with one entry per dirty persisted
\* node; each is issued only if it has an entry.
C3_SavePartition ==
    last.op = "save" =>
        LET drafts == SelectSeq(nodes, IsDraft)
            moved == DirtyPersisted(nodes, dirtyNodeIds)
        IN /\ last.calls.create = (IF drafts # <<>> THEN 1 ELSE 0)
           /\ last.calls.update = (IF moved # {} THEN 1 ELSE 0)
           /\ drafts # <<>> =>
                 /\ createReq.status = "pending"
                 /\ Len(createReq.plots) = Len(drafts)
                 /\ \A k \in DOMAIN drafts :
                       /\ createReq.plots[k].plotNumber = drafts[k].data.plotNumber
                       /\ createReq.plots[k].canvasPosition.x = drafts[k].position.x
                       /\ createReq.plots[k].canvasPosition.y = drafts[k].position.y
           /\ moved # {} =>
                 /\ updateReq.status = "pending"
                 /\ Len(updateReq.plots) = Cardinality(moved)
                 /\ {updateReq.plots[k]._id : k \in DOMAIN updateReq.plots}
                      = {nodes[i].id : i \in moved}

\* A save has just issued a bulk-create for two drafts and a bulk-update for
\* one of two persisted nodes.
C3_Witness ==
    /\ last.op = "save"
    /\ last.calls.create = 1
    /\ last.calls.update = 1
    /\ Len(createReq.plots) = 2
    /\ Len(updateReq.plots) = 1
    /\ Cardinality(Persisted(nodes)) = 2

\* C4: when every bulk call a save issued has succeeded, the dirty set and the
\* selection are empty right after the save completes and onRefresh was called.
C4_SuccessClearsAndRefreshes ==
    last.op = "saveDone" =>
        /\ dirtyNodeIds = {}
        /\ selectedNodeIds = {}
        /\ last.calls.refresh = 1
        /\ fetchPending

\* A save that issued both calls has completed with both succeeded.
C4_Witness ==
    /\ last.op = "saveDone"
    /\ createReq.status = "success"
    /\ updateReq.status = "success"
    /\ nodes # <<>>

\* C5: when a bulk call of a save rejects, the handler leaves nodes, the dirty
\* set and the selection as they are, calls no onRefresh, and undoes nothing:
\* the persisted plots and the other request are left alone.
C5_FailureChangesNothing ==
    [][last'.op = "saveFailed" =>
         /\ nodes' = nodes
         /\ dirtyNodeIds' = dirtyNodeIds
         /\ selectedNodeIds' = selectedNodeIds
         /\ last'.calls = NoCalls
         /\ fetchPending' = fetchPending
         /\ server' = server
         /\ (createReq.status = "pending" /\ updateReq.status = "pending") =>
               (createReq' = createReq \/ updateReq' = updateReq)]_vars

\* The bulk-update of a save has rejected after its bulk-create succeeded: the
\* created plot stays persisted and the moved node stays dirty.
C5_Witness ==
    /\ last.op = "saveFailed"
    /\ createReq.status = "success"
    /\ updateReq.status = "error"
    /\ Len(server) > Len(InitialServer)
    /\ dirtyNodeIds # {}

\* C6: while a bulk call of a save is in flight the save has not run its
\* success or failure handling: it resolves only once both calls have settled.
C6_ResolvesOnceBothSettled == isSaving => saveJoin.awaiting

\* C7: handleDeleteSelected clears the selection and calls onRefresh only when
\* every deletion request it issued has settled.
C7_DeleteAwaitsAll ==
    \A k \in DOMAIN deleteOps : deleteOps[k].joined => deleteOps[k].inflight = {}

\* C8: after seeding, the non-draft nodes and the fetched plots correspond one
\* to one by id.
C8_SeededOneToOne ==
    last.op = "seed" =>
        /\ \A k \in DOMAIN plots :
              Cardinality({i \in Persisted(nodes) : nodes[i].id = plots[k]._id}) = 1
        /\ \A i \in Persisted(nodes) : \E k \in DOMAIN plots : plots[k]._id = nodes[i].id

\* A re-seeding has run after a persisted plot was deleted: its node is gone
\* while the other fetched plot has its node.
C8_Witness ==
    /\ last.op = "seed"
    /\ Len(plots) = 1
    /\ Cardinality(Persisted(nodes)) = 1

\* The node of a fetched plot is where the user left it, not where seeding put it.
Moved(nds, i) ==
    \E k \in DOMAIN plots :
        /\ plots[k]._id = nds[i].id
        /\ nds[i].position # PlotToNode(plots[k]).position

\* C9: a save with no drafts, after one persisted node was moved, issues no
\* bulk-create and one bulk-update whose only entry carries just that node's
\* id and its current x, y, width and height.
C9_MoveThenSave ==
    (/\ last.op = "save"
     /\ Drafts(nodes) = {}
     /\ \E i \in Persisted(nodes) :
           /\ Moved(nodes, i)
           /\ DirtyPersisted(nodes, dirtyNodeIds) = {i}) =>
        /\ last.calls.create = 0
        /\ createReq.status # "pending"
        /\ last.calls.update = 1
        /\ Len(updateReq.plots) = 1
        /\ \A i \in DirtyPersisted(nodes, dirtyNodeIds) :
              /\ DOMAIN updateReq.plots[1] = {"_id", "canvasPosition"}
              /\ updateReq.plots[1]._id = nodes[i].id
              /\ updateReq.plots[1].canvasPosition =
                    [x |-> nodes[i].position.x, y |-> nodes[i].position.y,
                     width |-> nodes[i].style.width, height |-> nodes[i].style.height]

\* A save has just sent the new position of the one node that was dragged.
C9_Witness ==
    /\ last.op = "save"
    /\ Drafts(nodes) = {}
    /\ updateReq.status = "pending"
    /\ Len(updateReq.plots) = 1
    /\ updateReq.plots[1].canvasPosition.x = DragTarget.x
    /\ createReq.status = "idle"

\* C10: a save with no draft and no dirty persisted node issues no request,
\* reports "Nothing to save" and leaves nodes, dirty set and selection alone.
C10_NothingToSave ==
    [][(/\ last'.op = "save"
        /\ events' # events
        /\ Drafts(nodes) = {}
        /\ DirtyPersisted(nodes, dirtyNodeIds) = {}) =>
         /\ last'.toast = "Nothing to save"
         /\ last'.calls = NoCalls
         /\ nodes' = nodes
         /\ dirtyNodeIds' = dirtyNodeIds
         /\ selectedNodeIds' = selectedNodeIds
         /\ createReq' = createReq
         /\ updateReq' = updateReq
         /\ server' = server
         /\ fetchPending' = fetchPending]_vars

\* A save found nothing to save on a canvas that holds nodes and a selection.
C10_Witness ==
    /\ last.op = "save"
    /\ last.toast = "Nothing to save"
    /\ nodes # <<>>
    /\ selectedNodeIds # {}
----------------------------------------------------------------------------
\* Claims about the editing operations of the working set.

\* C11: in every reachable state the ids of the nodes are pairwise distinct,
\* also when drafts are added or cloned at the same reading of the clock.
C11_NodeIdsDistinct ==
    \A i, j \in DOMAIN nodes : i # j => nodes[i].id # nodes[j].id

\* C12: handleAddPlot appends exactly one node, a draft with status available,
\* area 1200, facing NORTH and plot type REGULAR, at the end of nodes; the
\* nodes already there and the dirty set are unchanged and the selection is
\* the new node alone.
C12_AddDraftAppendsOne ==
    [][(last'.op = "addPlot" /\ events' # events) =>
         /\ Len(nodes') = Len(nodes) + 1
         /\ SubSeq(nodes', 1, Len(nodes)) = nodes
         /\ LET n == nodes'[Len(nodes')]
            IN /\ n.data.isNew = TRUE
               /\ n.data.status = "available"
               /\ n.data.area = 1200
               /\ n.data.facing = "NORTH"
               /\ n.data.plotType = "REGULAR"
               /\ selectedNodeIds' = {n.id}
         /\ dirtyNodeIds' = dirtyNodeIds]_vars

\* A draft has just been added to a canvas that held two persisted nodes, one
\* of them dirty, and it is the selection now.
C12_Witness ==
    /\ last.op = "addPlot"
    /\ dirtyNodeIds # {}
    /\ Cardinality(Persisted(nodes)) = 2
    /\ Cardinality(Drafts(nodes)) = 1
    /\ selectedNodeIds = {nodes[Len(nodes)].id}

\* C13: handleDuplicate appends, for each selected node, one clone that is a
\* draft with the source's data and an id distinct from the source's, whether
\* the source is a draft or not; the nodes already there are unchanged; with an
\* empty selection nothing changes.
C13_DuplicateClones ==
    [][(last'.op = "duplicate" /\ events' # events) =>
         LET src == {i \in DOMAIN nodes : nodes[i].id \in selectedNodeIds}
         IN /\ SubSeq(nodes', 1, Len(nodes)) = nodes
            /\ Len(nodes') = Len(nodes) + Cardinality(src)
            /\ \A i \in src :
                  \E j \in (Len(nodes) + 1)..Len(nodes') :
                     /\ nodes'[j].data =
                           [nodes[i].data EXCEPT
                              !.plotNumber = Append(nodes[i].data.plotNumber, "copy"),
                              !.isNew = TRUE]
                     /\ nodes'[j].id # nodes[i].id
            /\ selectedNodeIds = {} =>
                  /\ nodes' = nodes
                  /\ selectedNodeIds' = selectedNodeIds
            /\ dirtyNodeIds' = dirtyNodeIds]_vars

\* C14: a confirmed handleDeleteSelected right after handleAddPlot removes the
\* draft and makes no call to the persistence boundary: no deletion request,
\* no refresh of the plot list.
C14_DraftDeleteNoNetwork ==
    [][(/\ last.op = "addPlot"
        /\ last'.op = "delete"
        /\ events' # events
        /\ nodes' # nodes) =>
         /\ \A i \in DOMAIN nodes' : nodes'[i].id \notin selectedNodeIds
         /\ last'.calls = NoCalls
         /\ deleteOps' = deleteOps
         /\ server' = server
         /\ fetchPending' = fetchPending]_vars

\* C15: "Clear drafts" removes every draft, empties the dirty set and keeps
\* every non-draft node, in order, with its data, position and size.
C15_ClearDraftsKeepsPersisted ==
    [][(last'.op = "clearDrafts" /\ events' # events) =>
         LET NotDraft(n) == ~n.data.isNew
         IN /\ Drafts(nodes') = {}
            /\ dirtyNodeIds' = {}
            /\ nodes' = SelectSeq(nodes, NotDraft)]_vars

\* Drafts were cleared from a canvas on which a persisted node had been moved:
\* the node is still where the user left it.
C15_Witness ==
    /\ last.op = "clearDrafts"
    /\ Cardinality(Persisted(nodes)) = 2
    /\ \E i \in Persisted(nodes) : Moved(nodes, i)

\* C16: at the end of a drag or on a resize, the id of a non-draft node is
\* added to the dirty set; the same event on a draft leaves the dirty set alone.
C16_DragResizeMarksDirty ==
    [][\A id \in NodeIds(nodes) : \A change \in NodeChanges(id) :
         (/\ OnNodesChange(change)
          /\ \/ change.type = "dimensions"
             \/ change.type = "position" /\ change.dragging = FALSE) =>
            IF \E i \in Drafts(nodes) : nodes[i].id = id
            THEN dirtyNodeIds' = dirtyNodeIds
            ELSE dirtyNodeIds' = dirtyNodeIds \cup {id}]_vars

\* A persisted node has just been resized and is dirty, next to a draft that
\* was dragged and is not.
C16_Witness ==
    /\ last.op = "nodesChange"
    /\ \E i \in Persisted(nodes) :
          /\ nodes[i].style = ResizeTarget
          /\ nodes[i].id \in dirtyNodeIds
    /\ \E i \in Drafts(nodes) :
          /\ nodes[i].position = DragTarget
          /\ nodes[i].id \notin dirtyNodeIds

\* C17: updateSelectedNode sets the field on every selected node and on no
\* other; if a selected node is not a draft the selected persisted nodes are
\* added to the dirty set, and if all selected nodes are drafts the dirty set
\* is unchanged.  (A selected id whose node is gone counts as not a draft in
\* the code, which is where the two part.)
C17_UpdateFieldOnSelection ==
    [][(last'.op = "updateField" /\ events' # events) =>
         LET sel == {i \in DOMAIN nodes : nodes[i].id \in selectedNodeIds}
         IN /\ Len(nodes') = Len(nodes)
            /\ \A i \in DOMAIN nodes :
                  IF i \in sel
                  THEN \E kv \in UpdateInputs :
                          nodes'[i] = [nodes[i] EXCEPT !.data[kv[1]] = kv[2]]
                  ELSE nodes'[i] = nodes[i]
            /\ IF \E i \in sel : ~nodes[i].data.isNew
               THEN /\ {nodes[i].id : i \in sel \cap Persisted(nodes)}
                          \subseteq dirtyNodeIds'
                    /\ dirtyNodeIds \subseteq dirtyNodeIds'
               ELSE dirtyNodeIds' = dirtyNodeIds]_vars

\* C18: every id in the dirty set is the id of a node in nodes that is not a
\* draft.
C18_DirtyIdsArePersistedNodes ==
    dirtyNodeIds \subseteq {nodes[i].id : i \in Persisted(nodes)}

\* C19: the seeding effect leaves the dirty set and the selection unchanged.
C19_SeedingKeepsDirtyAndSelection ==
    [][last'.op = "seed" =>
         /\ dirtyNodeIds' = dirtyNodeIds
         /\ selectedNodeIds' = selectedNodeIds]_vars

\* A re-seeding has run while a node was dirty and a node was selected.
C19_Witness ==
    /\ last.op = "seed"
    /\ dirtyNodeIds # {}
    /\ selectedNodeIds # {}
    /\ Len(plots) # Len(InitialServer)
----------------------------------------------------------------------------
\* Claims about the bulk numbering of CreatePlotDialog.

\* The number a string of decimal digits denotes, -1 if it is not one.
RECURSIVE DecimalValue(_)
DecimalValue(str) ==
    IF str = <<>> THEN 0
    ELSE LET c == str[Len(str)]
             ds == {d \in 0..9 : ToString(d) = c}
             rest == DecimalValue(SubSeq(str, 1, Len(str) - 1))
         IN IF ds = {} \/ rest < 0 THEN -1
            ELSE 10 * rest + (CHOOSE d \in ds : TRUE)

\* The number of decimal digits of a positive integer.
NumDigits(i) == CHOOSE n \in 1..10 : 10 ^ (n - 1) <= i /\ i < 10 ^ n

\* C20: for a valid bulk form the generator builds endNumber - startNumber + 1
\* plots, in ascending order of i from startNumber; the plot number for i is
\* the prefix, then i in decimal left-padded with zeros to `digits` characters
\* and never cut, then the suffix; an absent prefix or suffix is empty.
C20_BulkNumbering ==
    bulkReq.status = "pending" =>
        LET f == bulkForm
            digits == IF f.digits = <<>> THEN 1 ELSE f.digits[1]
            pre == IF f.prefix = <<>> THEN <<>> ELSE f.prefix[1]
            suf == IF f.suffix = <<>> THEN <<>> ELSE f.suffix[1]
        IN /\ Len(bulkReq.plots) = f.endNumber - f.startNumber + 1
           /\ \A k \in DOMAIN bulkReq.plots :
                 LET i == f.startNumber + k - 1
                     pn == bulkReq.plots[k].plotNumber
                     width == IF NumDigits(i) > digits THEN NumDigits(i)
                              ELSE digits
                 IN /\ Len(pn) = Len(pre) + width + Len(suf)
                    /\ SubSeq(pn, 1, Len(pre)) = pre
                    /\ SubSeq(pn, Len(pn) - Len(suf) + 1, Len(pn)) = suf
                    /\ DecimalValue(SubSeq(pn, Len(pre) + 1, Len(pn) - Len(suf))) = i

\* A bulk form with no prefix, a suffix and one digit has been submitted for a
\* range that runs from one-digit into two-digit numbers.
C20_Witness ==
    /\ bulkReq.status = "pending"
    /\ bulkForm.prefix = <<>>
    /\ bulkForm.suffix # <<>>
    /\ bulkForm.digits = <<1>>
    /\ bulkForm.startNumber < 10
    /\ bulkForm.endNumber >= 10
    /\ Len(bulkReq.plots) > 2
----------------------------------------------------------------------------
\* Claims about sequences of saves, re-seedings and edits on the canvas.

\* C25: no draft, identified by its temporary id, is in more than one
\* bulk-create request that succeeds.
C25_DraftCreatedAtMostOnce == ~hist.recreated

\* C26: a move or resize of a persisted node is not lost.  When a save
\* completes, a dirty node whose geometry is not the one the bulk-update in
\* flight carries stays dirty; when the nodes are re-seeded, a dirty node whose
\* plot is still fetched keeps its local position and size.
C26_MoveNeverLost ==
    [][/\ (last'.op = "saveDone" /\ updateReq.status = "pending") =>
             \A i \in DirtyPersisted(nodes, dirtyNodeIds) :
                (\A k \in DOMAIN updateReq.plots :
                    updateReq.plots[k] # UpdateEntry(nodes[i]))
                   => nodes[i].id \in dirtyNodeIds'
       /\ last'.op = "seed" =>
             \A i \in DirtyPersisted(nodes, dirtyNodeIds) :
                (\E k \in DOMAIN plots' : plots'[k]._id = nodes[i].id) =>
                   \E j \in DOMAIN nodes' :
                      /\ nodes'[j].id = nodes[i].id
                      /\ nodes'[j].position = nodes[i].position
                      /\ nodes'[j].style = nodes[i].style]_vars

\* C27: the plot numbers of the drafts sent in one bulk-create request are
\* pairwise distinct.
C27_PlotNumbersDistinct ==
    createReq.status = "pending" =>
        \A i, j \in DOMAIN createReq.plots :
            i # j => createReq.plots[i].plotNumber # createReq.plots[j].plotNumber

\* C28: every id in the selection is the id of a node in nodes.
C28_SelectionIsOfNodes == selectedNodeIds \subseteq NodeIds(nodes)
----------------------------------------------------------------------------
\* Claims about the validation and the pricing of the bulk form.

\* C21: a bulk form with endNumber < startNumber fails validation with an
\* error on endNumber, and no bulk-create is issued for a form that is not
\* valid: validation comes before the dispatch.
C21_InvalidRangeRejected ==
    [][/\ (/\ bulkForm.endNumber < bulkForm.startNumber
           /\ <<bulkErrors, bulkReq>>' # <<bulkErrors, bulkReq>>) =>
             /\ "endNumber" \in bulkErrors'
             /\ bulkReq' = bulkReq
             /\ server' = server
       /\ (bulkReq'.status = "pending" /\ bulkReq.status # "pending") =>
             /\ bulkForm.blockId # ""
             /\ bulkForm.startNumber >= 1
             /\ bulkForm.endNumber >= bulkForm.startNumber
             /\ bulkForm.area > 0
             /\ bulkForm.pricePerUnit > 0
             /\ bulkErrors' = {}]_vars

\* A form whose only fault is endNumber < startNumber has been submitted: the
\* error is on endNumber and no request went out.
C21_Witness ==
    /\ bulkErrors = {"endNumber"}
    /\ bulkForm.endNumber >= 1
    /\ bulkForm.endNumber < bulkForm.startNumber
    /\ bulkReq = IdleReq
    /\ server = InitialServer

\* C22: every plot of one bulk request carries the same price, area times
\* pricePerUnit of the form, and the same area, areaUnit, pricePerUnit,
\* facing, plotType, dimensions and blockId; only the plot number differs.
C22_BulkSharesPrice ==
    bulkReq.status = "pending" =>
        \A k \in DOMAIN bulkReq.plots :
            LET p == bulkReq.plots[k]
            IN /\ p.price = bulkForm.area * bulkForm.pricePerUnit
               /\ p.area = bulkForm.area
               /\ p.areaUnit = bulkForm.areaUnit
               /\ p.pricePerUnit = bulkForm.pricePerUnit
               /\ p.facing = bulkForm.facing
               /\ p.plotType = bulkForm.plotType
               /\ p.dimensions = bulkForm.dimensions
               /\ p.blockId = bulkForm.blockId
               /\ \A m \in DOMAIN bulkReq.plots :
                     /\ [p EXCEPT !.plotNumber = <<>>]
                           = [bulkReq.plots[m] EXCEPT !.plotNumber = <<>>]
                     /\ m # k => bulkReq.plots[m].plotNumber # p.plotNumber

\* A bulk request for three plots of area 1500 is in flight.
C22_Witness ==
    /\ bulkReq.status = "pending"
    /\ Len(bulkReq.plots) = 3
    /\ bulkForm.area = 1500
    /\ bulkReq.plots[3].price = 3000
----------------------------------------------------------------------------
\* Claims about the status dialog of ProjectPage.

\* C23: a status change whose newStatus equals the plot's current status is a
\* no-op: no status-update request is issued for the status the plot already
\* has in the table of the page.
C23_SameStatusIsNoOp ==
    [][(statusReq'.status = "pending" /\ statusReq.status # "pending") =>
          StatusOf(pagePlots, statusReq'.plotId[1]) # statusReq'.newStatus]_vars

\* C24: every transition between two different statuses is permitted: with
\* the dialog open on a plot in status s, every other status t is offered and
\* the update for it is neither disabled nor returned from early; the request
\* carries t, and when it succeeds the plot has moved from s to t.
C24_AllTransitionsPermitted ==
    [][/\ statusUpdateDialog.isOpen =>
            \A t \in PlotStatuses \ {statusUpdateDialog.currentStatus[1]} :
                LET chosen == [statusUpdateDialog EXCEPT !.newStatus = <<t>>]
                IN /\ t \in NewStatusOptions
                   /\ ~UpdateDisabled(chosen, IdleStatusReq)
                   /\ ~ReturnsEarly(chosen)
       /\ (HandleUpdateStatus /\ ~ReturnsEarly(statusUpdateDialog)) =>
            /\ statusReq'.status = "pending"
            /\ statusReq'.plotId = statusUpdateDialog.plotId
            /\ statusReq'.newStatus = statusUpdateDialog.newStatus
       /\ (statusReq.status = "pending" /\ statusReq'.status = "success") =>
            /\ StatusOf(server', statusReq.plotId[1]) = statusReq.newStatus
            /\ statusDone'.to = statusReq.newStatus
            /\ statusDone'.from = StatusOf(server, statusReq.plotId[1])]_vars

\* A plot that was sold has been made available again by one status update.
C24_Witness ==
    /\ statusDone.from = <<"sold">>
    /\ statusDone.to = <<"available">>
    /\ StatusOf(server, statusDone.plotId[1]) = <<"available">>
----------------------------------------------------------------------------
\* Claims about the auth store and ProtectedPage.

\* C29: ProtectedPage renders its children only while the store is hydrated,
\* isAuthenticated is true and the developer's status is not pending; after a
\* logout or a change of the status to pending they are no longer rendered.
C29_ChildrenOnlyWhenAllowed ==
    ChildrenRendered => /\ hasHydrated
                        /\ isAuthenticated
                        /\ ~IsPending(Store)

\* C30: whatever login, logout and setDeveloper did, isAuthenticated is true
\* exactly when token is non-null and exactly when developer is non-null.
C30_AuthFieldsAgree ==
    /\ isAuthenticated <=> token # <<>>
    /\ isAuthenticated <=> developer # <<>>
====
